---- MODULE Spec2Model ----
(***************************************************************************)
(* Numerical methods for y' = f(x, y) (models.js) and the three chart      *)
(* controllers built on them (controller.js), wired as in main.js.         *)
(*                                                                         *)
(* A JavaScript number is modelled as an exact rational <<n, d>> in lowest *)
(* terms with d > 0, extended with the three IEEE-754 special values:      *)
(* <<1, 0>> is Infinity, <<-1, 0>> is -Infinity and <<0, 0>> is NaN.       *)
(* Rounding and the sign of zero are not modelled.                         *)
(***************************************************************************)
EXTENDS Integers, Sequences, FiniteSets, TLC

\* Largest integer a typed text or a constructor value denotes.
MaxInt == 2

\* Iterations after which the integration loop is taken to run forever;
\* every terminating loop over the model's inputs is shorter: the smallest
\* positive step is 1/10 and x0 and X lie in 0..MaxInt.
MaxIter == 10 * MaxInt + 5

VARIABLES
    vars,      \* SolutionGraph.vars: the stored x0, y0, X, N
    funcs,     \* the DifferentialFunction given to the controllers
    sg,        \* SolutionGraph: eulerData, improvedEulerData, rungeKuttaData, exactData, domain
    ge,        \* GlobalError: eulerData, improvedEulerData, rungeKuttaData
    le,        \* LocalError: eulerData, improvedEulerData, rungeKuttaData
    chart,     \* this.chart of each controller: "null", "live" or "destroyed"
    events,    \* the events dispatched on eventManager by the last handler, in order
    outcome,   \* how the last handler ended
    builds,    \* completed SolutionGraph builds since vars last changed (0, 1, 2 = more)
    self,      \* a NumericalMethod instance: kind, df, x0, y0, X, h
    ret,       \* what the last call of self returned
    first      \* what the first call of self without override returned, and
               \* whether a call with an override was made after it

allvars ==
    <<vars, funcs, sg, ge, le, chart, events, outcome, builds, self, ret, first>>

----------------------------------------------------------------------------
(* Numbers *)

Abs(n) == IF n < 0 THEN -n ELSE n

Sign(n) == IF n > 0 THEN 1 ELSE IF n < 0 THEN -1 ELSE 0

RECURSIVE GCD(_, _)
GCD(a, b) == IF b = 0 THEN a ELSE GCD(b, a % b)

\* The number n/d, d >= 0, in lowest terms (d = 0: a special value).
Norm(n, d) ==
    IF d = 0 THEN <<Sign(n), 0>>
    ELSE LET g == GCD(Abs(n), d) IN <<n \div g, d \div g>>

\* The number denoted by the integer n.
Num(n) == <<n, 1>>

Infinity == <<1, 0>>
NaN == <<0, 0>>

isNaN(a) == a = NaN

\* Number.isFinite
isFinite(a) == a[2] # 0

Neg(a) == <<-a[1], a[2]>>

\* a + b
Add(a, b) ==
    IF isNaN(a) \/ isNaN(b) THEN NaN
    ELSE IF ~isFinite(a) THEN (IF ~isFinite(b) /\ b # a THEN NaN ELSE a)
    ELSE IF ~isFinite(b) THEN b
    ELSE Norm(a[1] * b[2] + b[1] * a[2], a[2] * b[2])

\* a - b
Sub(a, b) == Add(a, Neg(b))

\* a * b
Mul(a, b) ==
    IF isNaN(a) \/ isNaN(b) THEN NaN
    ELSE IF ~isFinite(a) \/ ~isFinite(b)
         THEN <<Sign(a[1]) * Sign(b[1]), 0>>
    ELSE Norm(a[1] * b[1], a[2] * b[2])

\* a / b
Div(a, b) ==
    IF isNaN(a) \/ isNaN(b) THEN NaN
    ELSE IF ~isFinite(a) THEN (IF ~isFinite(b) THEN NaN
                               ELSE <<a[1] * (IF b[1] < 0 THEN -1 ELSE 1), 0>>)
    ELSE IF ~isFinite(b) THEN Num(0)
    ELSE IF b[1] = 0 THEN <<Sign(a[1]), 0>>
    ELSE Norm(Sign(b[1]) * a[1] * b[2], a[2] * Abs(b[1]))

\* a < b
Lt(a, b) ==
    /\ ~isNaN(a) /\ ~isNaN(b)
    /\ IF a[2] = 0 /\ b[2] = 0 THEN a[1] < b[1]
       ELSE a[1] * b[2] < b[1] * a[2]

\* a <= b
Le(a, b) == ~isNaN(a) /\ ~isNaN(b) /\ (a = b \/ Lt(a, b))

----------------------------------------------------------------------------
(* models.js *)

\* The function pairs a DifferentialFunction is constructed with: main.js's
\* (3x^2 - x, 1 + 2y/x), and two pairs whose trajectories keep small
\* denominators: (x^3, 3x^2) and (2x, y/x).
FuncNames == {"main", "cubic", "ratio"}

\* DifferentialFunction.exact
exact(f, x) ==
    CASE f = "main"  -> Sub(Mul(Num(3), Mul(x, x)), x)
      [] f = "cubic" -> Mul(x, Mul(x, x))
      [] f = "ratio" -> Mul(Num(2), x)

\* DifferentialFunction.derivative
derivative(f, x, y) ==
    CASE f = "main"  -> Add(Num(1), Div(Mul(Num(2), y), x))
      [] f = "cubic" -> Mul(Num(3), Mul(x, x))
      [] f = "ratio" -> Div(y, x)

Kinds == {"Euler", "ImprovedEuler", "RungeKutta"}

Half(a) == Div(a, Num(2))

\* Euler.step with the slope taken at the end of the step.
EulerStepAtEnd(f, x, y, h) ==
    [y |-> Add(y, Mul(h, derivative(f, Add(x, h), y))),
     x |-> Add(x, h)]

\* Euler.step
EulerStep(f, x, y, h) ==
    [y |-> Add(y, Mul(h, derivative(f, x, y))),
     x |-> Add(x, h)]

\* ImprovedEuler.step
ImprovedEulerStep(f, x, y, h) ==
    LET k1 == derivative(f, x, y)
        k2 == derivative(f, Add(x, h), Add(y, Mul(h, k1)))
    IN  [y |-> Add(y, Mul(Half(h), Add(k1, k2))),
         x |-> Add(x, h)]

\* RungeKutta.step with the middle slopes taken at y + k instead of y + k/2.
RungeKuttaStepWholeSlope(f, x, y, h) ==
    LET k1 == Mul(h, derivative(f, x, y))
        k2 == Mul(h, derivative(f, Add(x, Half(h)), Add(y, k1)))
        k3 == Mul(h, derivative(f, Add(x, Half(h)), Add(y, k2)))
        k4 == Mul(h, derivative(f, Add(x, h), Add(y, k3)))
    IN  [y |-> Add(y, Mul(Div(Num(1), Num(6)),
                          Add(Add(k1, Mul(Num(2), k2)),
                              Add(Mul(Num(2), k3), k4)))),
         x |-> Add(x, h)]

\* RungeKutta.step
RungeKuttaStep(f, x, y, h) ==
    LET k1 == Mul(h, derivative(f, x, y))
        k2 == Mul(h, derivative(f, Add(x, Half(h)), Add(y, Half(k1))))
        k3 == Mul(h, derivative(f, Add(x, Half(h)), Add(y, Half(k2))))
        k4 == Mul(h, derivative(f, Add(x, h), Add(y, k3)))
    IN  [y |-> Add(y, Mul(Div(Num(1), Num(6)),
                          Add(Add(k1, Mul(Num(2), k2)),
                              Add(Mul(Num(2), k3), k4)))),
         x |-> Add(x, h)]

\* The values this.df returns during one step.
Slopes(kind, f, x, y, h) ==
    CASE kind = "Euler" -> {derivative(f, x, y)}
      [] kind = "ImprovedEuler" ->
            {derivative(f, x, y),
             derivative(f, Add(x, h), Add(y, Mul(h, derivative(f, x, y))))}
      [] kind = "RungeKutta" ->
            LET k1 == Mul(h, derivative(f, x, y))
                k2 == Mul(h, derivative(f, Add(x, Half(h)), Add(y, Half(k1))))
                k3 == Mul(h, derivative(f, Add(x, Half(h)), Add(y, Half(k2))))
            IN  {derivative(f, x, y),
                 derivative(f, Add(x, Half(h)), Add(y, Half(k1))),
                 derivative(f, Add(x, Half(h)), Add(y, Half(k2))),
                 derivative(f, Add(x, h), Add(y, k3))}

\* A step that keeps the old y when the new one is not finite.
stepTrapped(kind, f, x, y, h) ==
    LET p == CASE kind = "Euler"         -> EulerStep(f, x, y, h)
               [] kind = "ImprovedEuler" -> ImprovedEulerStep(f, x, y, h)
               [] kind = "RungeKutta"    -> RungeKuttaStep(f, x, y, h)
    IN  IF isFinite(p.y) THEN p ELSE [y |-> y, x |-> p.x]

\* this.step of an instance of the given class
step(kind, f, x, y, h) ==
    CASE kind = "Euler"         -> EulerStep(f, x, y, h)
      [] kind = "ImprovedEuler" -> ImprovedEulerStep(f, x, y, h)
      [] kind = "RungeKutta"    -> RungeKuttaStep(f, x, y, h)

\* Evaluations of the derivative made by one step.
StepEvals(kind) ==
    CASE kind = "Euler"         -> 1
      [] kind = "ImprovedEuler" -> 2
      [] kind = "RungeKutta"    -> 4

\* The loop pushing each point after its step: the point past X is kept.
RECURSIVE LoopPushAfter(_, _, _, _, _, _, _)
LoopPushAfter(kind, f, p, X, h, data, fuel) ==
    IF ~Le(p.x, X)
    THEN [status |-> "return", data |-> Append(data, p),
          steps |-> Len(data), evals |-> Len(data) * StepEvals(kind)]
    ELSE IF fuel = 0
    THEN [status |-> "hang", data |-> data,
          steps |-> Len(data), evals |-> Len(data) * StepEvals(kind)]
    ELSE LoopPushAfter(kind, f, step(kind, f, p.x, p.y, h), X, h,
                       Append(data, p), fuel - 1)

\* The while loop of __call__ with { x: x0, y: y0 } = p: data so far, fuel
\* iterations left.  The result says whether the loop returned or is still
\* running when the fuel is spent, and how often step and the derivative
\* were evaluated.
RECURSIVE Loop(_, _, _, _, _, _, _)
Loop(kind, f, p, X, h, data, fuel) ==
    IF ~Le(p.x, X)
    THEN [status |-> "return", data |-> data,
          steps |-> Len(data), evals |-> Len(data) * StepEvals(kind)]
    ELSE IF fuel = 0
    THEN [status |-> "hang", data |-> data,
          steps |-> Len(data), evals |-> Len(data) * StepEvals(kind)]
    ELSE Loop(kind, f, step(kind, f, p.x, p.y, h), X, h,
              Append(data, p), fuel - 1)

ConfigKeys == {"x0", "y0", "X", "h"}

\* { x0: this.x0, y0: this.y0, X: this.X, h: this.h, ...config }
Merge(this, config) ==
    [k \in ConfigKeys |-> IF k \in DOMAIN config THEN config[k] ELSE this[k]]

\* __call__ without the h == 0 short-circuit.
CallNoZeroCheck(this, config) ==
    LET c == Merge(this, config)
    IN  Loop(this.kind, this.df, [x |-> c.x0, y |-> c.y0], c.X, c.h, <<>>, MaxIter)

\* NumericalMethod.__call__ on instance this with the override config
\* (a function from some of the config keys; none: the empty function).
Call(this, config) ==
    LET c == Merge(this, config)
    IN  IF c.h = Num(0)
        THEN [status |-> "return", data |-> <<>>, steps |-> 0, evals |-> 0]
        ELSE Loop(this.kind, this.df, [x |-> c.x0, y |-> c.y0], c.X, c.h, <<>>, MaxIter)

\* new Euler(df, config), new ImprovedEuler(...), new RungeKutta(...)
NewMethod(kind, df, config) ==
    [kind |-> kind, df |-> df,
     x0 |-> config.x0, y0 |-> config.y0, X |-> config.X, h |-> config.h]

\* A call without argument: no key is overridden.
NoConfig == [k \in {} |-> NaN]

\* __call__ keeping the configuration of the call in the instance.
AfterStoring(this, config) ==
    [k \in DOMAIN this |->
        IF k \in DOMAIN config THEN config[k] ELSE this[k]]

\* The instance after __call__: x0, y0, X and h are read into locals of the
\* call, no field of the instance is assigned.
After(this, config) == this

----------------------------------------------------------------------------
(* A numerical method called directly *)

\* Values of x0, y0 and X of an instance.
Ints == {Num(n) : n \in 0..MaxInt}

\* Step sizes: zero, whole, fractional, negative.
StepValues == {Num(0), Num(1), Num(2), <<1, 2>>, <<3, 2>>, Num(-1)}

\* main.js's initial point with the step of the one-step scenario.
ScenarioConfigs ==
    {[x0 |-> Num(1), y0 |-> Num(2), X |-> X, h |-> <<1, 10>>] :
        X \in {<<11, 10>>, <<6, 5>>}}

Instances ==
    {NewMethod(kind, df, [x0 |-> x0, y0 |-> y0, X |-> X, h |-> h]) :
        kind \in Kinds, df \in {"cubic", "ratio"},
        x0 \in {Num(0), Num(1)}, y0 \in {Num(0), Num(2)},
        X \in Ints, h \in StepValues}
    \cup {NewMethod("Euler", "main", c) : c \in ScenarioConfigs}

Overrides ==
    {NoConfig} \cup {[h |-> h] : h \in StepValues}
               \cup {[X |-> X] : X \in Ints}

NotCalled == [status |-> "none"]

\* The controllers before main.js constructs them.
Idle ==
    /\ vars = <<>>
    /\ funcs = "none"
    /\ sg = <<>> /\ ge = <<>> /\ le = <<>>
    /\ chart = <<>>
    /\ events = <<>>
    /\ outcome = "none"
    /\ builds = 0

InitCall ==
    /\ Idle
    /\ self \in Instances
    /\ ret = NotCalled
    /\ first = NotCalled

\* self(config): the call returns, or never does.
CallMethod(config) ==
    /\ ret.status # "hang"
    /\ ret' = [config |-> config] @@ Call(self, config)
    /\ self' = After(self, config)
    /\ first' = IF first = NotCalled
                THEN (IF DOMAIN config = {}
                      THEN [overridden |-> FALSE] @@ Call(self, config)
                      ELSE first)
                ELSE [first EXCEPT !.overridden = @ \/ DOMAIN config # {}]
    /\ UNCHANGED <<vars, funcs, sg, ge, le, chart, events, outcome, builds>>

NextCall == \E config \in Overrides : CallMethod(config)

SpecCall == InitCall /\ [][NextCall]_allvars

\* The configuration the last call ran with.
Used == Merge(self, ret.config)

Called == ret.status # "none"

Returned == ret.status = "return"

Last(data) == data[Len(data)]

\* A call that returned, with a positive step and x0 <= X.
ForwardCall == Returned /\ Lt(Num(0), Used.h) /\ Le(Used.x0, Used.X)

C9_EmptyStep ==
    (Called /\ Used.h = Num(0)) =>
        /\ Returned
        /\ ret.data = <<>>
        /\ ret.steps = 0
        /\ ret.evals = 0

\* A call whose override sets h to 0 on an instance with a nonzero step and
\* x0 <= X, where the loop would have run.
C9_Witness ==
    /\ Returned
    /\ "h" \in DOMAIN ret.config
    /\ ret.config.h = Num(0)
    /\ self.h # Num(0)
    /\ Le(Used.x0, Used.X)
    /\ ret.data = <<>>

\* The one-step scenario of main.js's equation.
Scenario ==
    /\ self.kind = "Euler" /\ self.df = "main"
    /\ Used.x0 = Num(1) /\ Used.y0 = Num(2) /\ Used.h = <<1, 10>>
    /\ Le(<<11, 10>>, Used.X)

\* C10: the Euler method's trajectory for y' = 1 + 2y/x, x0 = 1, y0 = 2,
\* h = 0.1, X >= 1.1 starts (1, 2), (1.1, 2.5); and every point of an Euler
\* trajectory after the first is (x + h, y + h*f(x, y)) of the point before.
C10_EulerStep ==
    (Returned /\ self.kind = "Euler") =>
        /\ Scenario =>
              /\ Len(ret.data) >= 2
              /\ ret.data[1] = [x |-> Num(1), y |-> Num(2)]
              /\ ret.data[2] = [x |-> <<11, 10>>, y |-> <<5, 2>>]
        /\ \A i \in 1..(Len(ret.data) - 1) :
              LET p == ret.data[i]
              IN  /\ ret.data[i + 1].x = Add(p.x, Used.h)
                  /\ ret.data[i + 1].y =
                        Add(p.y, Mul(Used.h, derivative(self.df, p.x, p.y)))

C10_Witness == Returned /\ Scenario /\ Len(ret.data) >= 2

----------------------------------------------------------------------------
(* controller.js *)

\* {}: an object without properties.
EmptyObject == [k \in {} |-> NaN]

Point(x, y) == [x |-> x, y |-> y]

\* Array.from({ length: n }, ...): the length of the array, n finite.
\* (ToLength: a fraction is truncated, a negative length is 0.)
ArrayLength(n) == IF isNaN(n) \/ n[1] <= 0 THEN 0 ELSE n[1] \div n[2]

\* Array.from({ length: Infinity }) raises a RangeError.
ArrayTooLong(n) == n = Infinity

\* if (this.chart) this.chart.destroy()
Destroy(c) == IF c = "null" THEN "null" ELSE "destroyed"

\* The config object of SolutionGraph.buildChart.
Config(v) ==
    [x0 |-> v.x0, y0 |-> v.y0, X |-> v.X, N |-> v.N,
     h |-> Div(Sub(v.X, v.x0), v.N)]

\* this.domain of SolutionGraph.buildChart
Domain(config) ==
    [i \in 1..ArrayLength(config.N) |->
        Add(Mul(Num(i - 1), config.h), config.x0)]

\* this.exactData of SolutionGraph.buildChart
ExactData(f, domain) ==
    [i \in 1..Len(domain) |-> Point(domain[i], exact(f, domain[i]))]

\* GlobalError.buildChart pushing onto the arrays of the build before.
GlobalErrorKeep(old) ==
    [eulerData |-> old.eulerData, improvedEulerData |-> old.improvedEulerData,
     rungeKuttaData |-> old.rungeKuttaData, status |-> "return"]

\* The arrays GlobalError.buildChart starts from.
GlobalErrorReset(old) ==
    [eulerData |-> <<>>, improvedEulerData |-> <<>>, rungeKuttaData |-> <<>>,
     status |-> "return"]

\* diff(dataset) of GlobalError.buildChart pushed on this.<key>Data:
\* dataset[N - 1] is undefined, and reading its y throws, when the
\* trajectory has fewer than N points.
GlobalErrorDiff(acc, key, dataset, f, config, N) ==
    IF dataset.status = "hang" THEN [acc EXCEPT !.status = "hang"]
    ELSE IF N > Len(dataset.data) THEN [acc EXCEPT !.status = "throw"]
    ELSE [acc EXCEPT ![key] =
             Append(@, Point(Num(N),
                             Sub(exact(f, config.X), dataset.data[N].y)))]

\* this.<key>Data.push(diff(method({ h }))) for one N of GlobalError.buildChart
GlobalErrorPush(acc, key, kind, f, config, N) ==
    IF acc.status # "return" THEN acc
    ELSE GlobalErrorDiff(acc, key,
                         Call(NewMethod(kind, f, config),
                              [h |-> Div(Sub(config.X, config.x0), Num(N))]),
                         f, config, N)

\* domain.forEach(N => ...) of GlobalError.buildChart, from N on.
RECURSIVE GlobalErrorEach(_, _, _, _, _)
GlobalErrorEach(acc, f, config, N, len) ==
    IF N > len \/ acc.status # "return" THEN acc
    ELSE GlobalErrorEach(
            GlobalErrorPush(
                GlobalErrorPush(
                    GlobalErrorPush(acc, "eulerData", "Euler", f, config, N),
                    "improvedEulerData", "ImprovedEuler", f, config, N),
                "rungeKuttaData", "RungeKutta", f, config, N),
            f, config, N + 1, len)

\* The series GlobalError.buildChart computes, and how the computation ends.
GlobalErrorData(old, f, config) ==
    GlobalErrorEach(GlobalErrorReset(old), f, config, 1, ArrayLength(config.N))

\* The index at which diff of LocalError.buildChart has no exact value left
\* (index >= exact.length), as a 1-based position.
PastExact(i, exactData) == i - 1 >= Len(exactData)

\* The point diff of LocalError.buildChart returns for index 0.
LocalErrorFirst(item) == Point(Num(0), Num(0))

\* diff of LocalError.buildChart for arr[i] (1-based)
LocalErrorDiff(arr, i, exactData) ==
    IF i = 1 THEN LocalErrorFirst(arr[i])
    ELSE IF PastExact(i, exactData) THEN EmptyObject
    ELSE LET curGlobal == Sub(exactData[i].y, arr[i].y)
             prevGlobal == Sub(exactData[i - 1].y, arr[i - 1].y)
         IN  Point(arr[i].x, Sub(curGlobal, prevGlobal))

\* arr.map(diff)
LocalErrorMap(arr, exactData) ==
    [i \in 1..Len(arr) |-> LocalErrorDiff(arr, i, exactData)]

Series(d) ==
    [eulerData |-> d.eulerData, improvedEulerData |-> d.improvedEulerData,
     rungeKuttaData |-> d.rungeKuttaData]

\* One more completed build with these vars.
Built(n) == IF n < 2 THEN n + 1 ELSE 2

\* The series LocalError.buildChart computes from the event's detail.
LocalErrorData(data) ==
    [eulerData |-> LocalErrorMap(data.eulerData, data.exactData),
     improvedEulerData |-> LocalErrorMap(data.improvedEulerData, data.exactData),
     rungeKuttaData |-> LocalErrorMap(data.rungeKuttaData, data.exactData)]

Event(type, detail) == [type |-> type, detail |-> detail]

\* dispatchEvent('approximationsUpdated') of SolutionGraph.buildChart, the
\* listeners having computed global and local, to the end of buildChart.
\* dispatchEvent reports an exception of a listener and goes on with the
\* next listener.
Dispatched(config, data, global, local, n) ==
    IF global.status = "hang"
    THEN /\ chart' = [chart EXCEPT !.sg = Destroy(@), !.ge = Destroy(@)]
         /\ sg' = data
         /\ ge' = Series(global)
         /\ outcome' = "hang"
         /\ events' = <<Event("approximationsUpdated",
                              [data |-> data, config |-> config])>>
         /\ builds' = n
         /\ UNCHANGED le
    ELSE /\ sg' = data
         /\ ge' = Series(global)
         /\ le' = local
         /\ chart' = [sg |-> "live",
                      ge |-> IF global.status = "throw"
                             THEN Destroy(chart.ge) ELSE "live",
                      le |-> "live"]
         /\ events' =
                <<Event("approximationsUpdated",
                        [data |-> data, config |-> config])>>
                \o (IF global.status = "throw" THEN <<>>
                    ELSE <<Event("globalErrorUpdated", Series(global))>>)
                \o <<Event("localErrorUpdated", local)>>
         /\ outcome' = IF global.status = "throw"
                       THEN "listener throw" ELSE "return"
         /\ builds' = Built(n)

\* SolutionGraph.buildChart from this.eulerData = euler() on, the three
\* calls having ended as euler, improvedEuler and rungeKutta.
Approximated(config, domain, euler, improvedEuler, rungeKutta, n) ==
    IF "hang" \in {euler.status, improvedEuler.status, rungeKutta.status}
    THEN /\ chart' = [chart EXCEPT !.sg = Destroy(@)]
         /\ sg' = [sg EXCEPT !.domain = domain]
         /\ outcome' = "hang"
         /\ events' = <<>>
         /\ builds' = n
         /\ UNCHANGED <<ge, le>>
    ELSE Dispatched(config,
                    [eulerData |-> euler.data,
                     improvedEulerData |-> improvedEuler.data,
                     rungeKuttaData |-> rungeKutta.data,
                     exactData |-> ExactData(funcs, domain),
                     domain |-> domain],
                    GlobalErrorData(ge, funcs, config),
                    LocalErrorData([eulerData |-> euler.data,
                                    improvedEulerData |-> improvedEuler.data,
                                    rungeKuttaData |-> rungeKutta.data,
                                    exactData |-> ExactData(funcs, domain)]),
                    n)

\* SolutionGraph.buildChart with the config object built.
Configured(config, n) ==
    IF ArrayTooLong(config.N)
    THEN /\ chart' = [chart EXCEPT !.sg = Destroy(@)]
         /\ outcome' = "throw"
         /\ events' = <<>>
         /\ builds' = n
         /\ UNCHANGED <<sg, ge, le>>
    ELSE Approximated(config, Domain(config),
                      Call(NewMethod("Euler", funcs, config), NoConfig),
                      Call(NewMethod("ImprovedEuler", funcs, config), NoConfig),
                      Call(NewMethod("RungeKutta", funcs, config), NoConfig),
                      n)

\* SolutionGraph.buildChart with the stored parameters v, the listeners
\* GlobalError.buildChart and LocalError.buildChart included; n builds
\* were completed with v before.
Rebuild(v, n) == Configured(Config(v), n)

----------------------------------------------------------------------------
(* The input listeners of SolutionGraph *)

Digits == <<"0", "1", "2", "3", "4", "5", "6", "7", "8", "9">>

IsDigit(c) == \E i \in DOMAIN Digits : Digits[i] = c

DigitValue(c) == (CHOOSE i \in DOMAIN Digits : Digits[i] = c) - 1

RECURSIVE SkipSpaces(_, _)
SkipSpaces(s, i) ==
    IF i <= Len(s) /\ s[i] = " " THEN SkipSpaces(s, i + 1) ELSE i

\* The digits of s from position i: their number k, the value n of the
\* digits read so far followed by them, and the position after them.
RECURSIVE ScanDigits(_, _, _, _)
ScanDigits(s, i, n, k) ==
    IF i <= Len(s) /\ IsDigit(s[i])
    THEN ScanDigits(s, i + 1, 10 * n + DigitValue(s[i]), k + 1)
    ELSE [n |-> n, k |-> k, i |-> i]

RECURSIVE Pow10(_)
Pow10(k) == IF k = 0 THEN 1 ELSE 10 * Pow10(k - 1)

StartsWith(s, i, word) ==
    /\ i + Len(word) - 1 <= Len(s)
    /\ \A j \in 1..Len(word) : s[i + j - 1] = word[j]

\* parseFloat of a text given as the sequence of its characters: leading
\* blanks, a sign, then "Infinity" or the longest decimal literal; NaN when
\* there is none.  (Exponents are not modelled.)
parseFloat(s) ==
    LET i0 == SkipSpaces(s, 1)
        signed == i0 <= Len(s) /\ s[i0] \in {"+", "-"}
        i1 == IF signed THEN i0 + 1 ELSE i0
        int == ScanDigits(s, i1, 0, 0)
        dot == int.i <= Len(s) /\ s[int.i] = "."
        frac == IF dot THEN ScanDigits(s, int.i + 1, int.n, 0)
                ELSE [n |-> int.n, k |-> 0, i |-> int.i]
        magnitude ==
            IF StartsWith(s, i1, <<"I", "n", "f", "i", "n", "i", "t", "y">>)
            THEN Infinity
            ELSE IF int.k + frac.k = 0 THEN NaN
            ELSE Norm(frac.n, Pow10(frac.k))
    IN  IF signed /\ s[i0] = "-" THEN Neg(magnitude) ELSE magnitude

\* a === b
StrictEquals(a, b) == ~isNaN(a) /\ ~isNaN(b) /\ a = b

IntegerTexts == {<<Digits[n + 1]>> : n \in 0..MaxInt}

NonFiniteTexts ==
    {<<>>, <<"a", "b", "c">>, <<"I", "n", "f", "i", "n", "i", "t", "y">>}

\* The texts typed into the input element of vars[key].
Texts(key) ==
    NonFiniteTexts \cup
    CASE key = "x0" -> IntegerTexts
      [] key = "y0" -> {<<"0">>, <<"2">>}
      [] key = "X"  -> IntegerTexts \cup {<<" ", "1", ".", "5", "x">>}
      [] key = "N"  -> IntegerTexts \cup {<<"-", "1">>, <<"1", ".", "5">>}

Keys == {"x0", "y0", "X", "N"}

\* A listener without the Number.isFinite test.
NotChecked(input) == TRUE

\* The input goes past the listener's early return only when it is finite.
Finite(input) == isFinite(input)

\* The 'input' listener of the element of vars[key], its value being text.
Input(key, text) ==
    LET input == parseFloat(text)
    IN  /\ outcome # "hang"
        /\ IF ~Finite(input)
           THEN /\ outcome' = "ignored: not finite"
                /\ events' = <<>>
                /\ UNCHANGED <<vars, sg, ge, le, chart, builds>>
           ELSE IF StrictEquals(input, vars[key])
           THEN /\ outcome' = "ignored: same value"
                /\ events' = <<>>
                /\ UNCHANGED <<vars, sg, ge, le, chart, builds>>
           ELSE /\ vars' = [vars EXCEPT ![key] = input]
                /\ Rebuild(vars', 0)
        /\ UNCHANGED <<funcs, self, ret, first>>

\* controller.buildChart(), as main.js calls it after construction.
BuildChart ==
    /\ outcome # "hang"
    /\ Rebuild(vars, builds)
    /\ UNCHANGED <<vars, funcs, self, ret, first>>

\* The values main.js may construct the SolutionGraph with; its x0 and y0.
InitialVars ==
    {[x0 |-> Num(1), y0 |-> Num(2), X |-> Num(2), N |-> Num(N)] : N \in 1..MaxInt}

NoSeries == [eulerData |-> <<>>, improvedEulerData |-> <<>>, rungeKuttaData |-> <<>>]

\* The state after the three constructors of main.js.
Init ==
    /\ vars \in InitialVars
    /\ funcs \in {"cubic", "ratio"}
    /\ sg = [eulerData |-> <<>>, improvedEulerData |-> <<>>,
             rungeKuttaData |-> <<>>, exactData |-> <<>>, domain |-> <<>>]
    /\ ge = NoSeries
    /\ le = NoSeries
    /\ chart = [sg |-> "null", ge |-> "null", le |-> "null"]
    /\ events = <<>>
    /\ outcome = "none"
    /\ builds = 0
    /\ self = "none"
    /\ ret = NotCalled
    /\ first = NotCalled

Next ==
    \/ BuildChart
    \/ \E key \in Keys : \E text \in Texts(key) : Input(key, text)

Spec == Init /\ [][Next]_allvars

----------------------------------------------------------------------------
(* Properties of the controllers *)

SeriesKeys == {"eulerData", "improvedEulerData", "rungeKuttaData"}

KindOf(key) ==
    CASE key = "eulerData"         -> "Euler"
      [] key = "improvedEulerData" -> "ImprovedEuler"
      [] key = "rungeKuttaData"    -> "RungeKutta"

\* The last SolutionGraph.buildChart ran to its end: the series of the
\* SolutionGraph are those of the stored vars.
SolutionBuilt == chart.sg = "live"

\* ... and GlobalError.buildChart ran to its end.
GlobalBuilt == SolutionBuilt /\ chart.ge = "live"

\* ... and LocalError.buildChart ran to its end.
LocalBuilt == SolutionBuilt /\ chart.le = "live"

IsPoint(e) == DOMAIN e = {"x", "y"}

\* The trajectory of the method of series key for N steps from x0 to X.
TrajectoryFor(key, N) ==
    Call(NewMethod(KindOf(key), funcs, Config(vars)),
         [h |-> Div(Sub(vars.X, vars.x0), Num(N))]).data

\* C2 as stated: after a build the global-error series of every method has
\* one entry per N in 1..Nmax, in ascending N, the entry for N being
\* (N, exact(X) - y_last) with y_last the y of the last point of the
\* method's trajectory for h = (X - x0)/N.
C2_GlobalErrorAtLast ==
    GlobalBuilt =>
        \A key \in SeriesKeys :
            /\ Len(ge[key]) = ArrayLength(vars.N)
            /\ \A N \in 1..Len(ge[key]) :
                  ge[key][N] =
                      Point(Num(N),
                            Sub(exact(funcs, vars.X),
                                Last(TrajectoryFor(key, N)).y))

\* C3 as stated: the first entry of every local-error series is (x0, 0).
C3_LocalErrorFirst ==
    LocalBuilt =>
        \A key \in SeriesKeys :
            Len(le[key]) > 0 => le[key][1] = Point(vars.x0, Num(0))

\* exact(x_j) - y_j for the j-th point of a trajectory
GlobalAt(arr, j) == Sub(exact(funcs, arr[j].x), arr[j].y)

\* C4 as stated: the local-error series has an entry for every point of
\* the trajectory, each an (x, value) pair, and for i > 0 the entry is
\* (x_i, g_i - g_{i-1}) with g_j = exact(x_j) - y_j.
C4_LocalErrorFormula ==
    LocalBuilt =>
        \A key \in SeriesKeys :
            /\ Len(le[key]) = Len(sg[key])
            /\ \A i \in 1..Len(le[key]) : IsPoint(le[key][i])
            /\ \A i \in 2..Len(le[key]) :
                  le[key][i] =
                      Point(sg[key][i].x,
                            Sub(GlobalAt(sg[key], i), GlobalAt(sg[key], i - 1)))

\* The last handler was a SolutionGraph.buildChart that returned.
BuildReturned == outcome \in {"return", "listener throw"}

C6_AtomicRebuild ==
    [][(SolutionBuilt /\ outcome' \in {"listener throw", "throw", "hang"})
         => (sg' = sg /\ ge' = ge /\ le' = le)]_allvars

\* Every stored parameter is a finite number.
AllFinite == \A key \in Keys : isFinite(vars[key])

\* An input event whose text does not parse to a finite number changes no
\* stored value, dispatches nothing and touches no series and no chart.
RejectionFrame ==
    \A key \in Keys : \A text \in Texts(key) :
        (~isFinite(parseFloat(text)) /\ Input(key, text)) =>
            /\ vars' = vars
            /\ events' = <<>>
            /\ UNCHANGED <<sg, ge, le, chart>>

\* C7: an input that does not parse to a finite number leaves the stored
\* value unchanged and starts no rebuild; after any sequence of input
\* events x0, y0, X and N are finite.
C7_InputRejection == [](AllFinite) /\ [][RejectionFrame]_allvars

\* A non-finite input was ignored after a completed build.
C7_Witness == outcome = "ignored: not finite" /\ SolutionBuilt /\ AllFinite

\* N is a whole number >= 1.
WholeSteps == vars.N[2] = 1 /\ vars.N[1] >= 1

\* The method's call for N = Nmax in GlobalError.buildChart ran with the
\* config of the call in SolutionGraph.buildChart: the two trajectories
\* agree in the point the global error reads.
SameTrajectory ==
    (GlobalBuilt /\ WholeSteps) =>
        \A key \in SeriesKeys :
            Last(ge[key]) =
                Point(vars.N, Sub(exact(funcs, vars.X), sg[key][vars.N[1]].y))

\* A build that follows a completed build of the same vars yields the same
\* series.
SameSeries ==
    (builds >= 1 /\ builds' = 2 /\ outcome' \in {"return", "listener throw"})
        => (vars' = vars /\ sg' = sg /\ ge' = ge /\ le' = le)

\* C8: two calls of a method with the same config return the same
\* trajectory, and SolutionGraph.buildChart run again with unchanged
\* parameters yields the same approximation, exact, global-error and
\* local-error series.
C8_Idempotent == [](SameTrajectory) /\ [][SameSeries]_allvars

\* buildChart has run again with unchanged parameters, N >= 2.
C8_Witness ==
    /\ builds = 2 /\ outcome = "return" /\ GlobalBuilt
    /\ Len(ge.eulerData) >= 2

----------------------------------------------------------------------------
(* Properties of a numerical method called directly, continued *)

\* The configuration of the last call has finite fields.
FiniteConfig == \A k \in ConfigKeys : isFinite(Used[k])

\* C11 as stated: a call with h != 0 returns a trajectory that is not
\* empty and starts with (x0, y0), also when x0 > X; each following point
\* is the step function applied to the point before it, and x_i = x0 + i*h.
C11_TrajectoryStart ==
    (Returned /\ FiniteConfig /\ Used.h # Num(0)) =>
        /\ Len(ret.data) > 0
        /\ ret.data[1] = [x |-> Used.x0, y |-> Used.y0]
        /\ \A i \in 1..(Len(ret.data) - 1) :
              ret.data[i + 1] =
                  step(self.kind, self.df, ret.data[i].x, ret.data[i].y, Used.h)
        /\ \A i \in 1..Len(ret.data) :
              ret.data[i].x = Add(Used.x0, Mul(Num(i - 1), Used.h))

----------------------------------------------------------------------------
(* Validation of the configuration *)

\* How a handler that went into SolutionGraph.buildChart can end.
BuildOutcomes == {"return", "listener throw", "hang", "throw"}

\* A non-positive step, or an endpoint not past the start.
InvalidConfig(config) ==
    Le(config.h, Num(0)) \/ Le(config.X, config.x0)

\* C12 as stated: a build whose config has h <= 0 or X <= x0 ends with an
\* error before any computation: no event is dispatched and no series of
\* any controller is replaced.
C12_InvalidConfigAborts ==
    [][(outcome' \in BuildOutcomes /\ InvalidConfig(Config(vars'))) =>
          /\ outcome' = "throw"
          /\ events' = <<>>
          /\ sg' = sg /\ ge' = ge /\ le' = le]_allvars

----------------------------------------------------------------------------
(* Non-finite values of the derivative *)

\* The derivative returned NaN or an infinity during the step taken from
\* the i-th point of the returned trajectory.
NonFiniteSlopeAt(i) ==
    \E s \in Slopes(self.kind, self.df, ret.data[i].x, ret.data[i].y, Used.h) :
        ~isFinite(s)

\* The same call on an instance whose derivative, 3x^2, is finite wherever
\* x is.
FiniteTwin == Call([self EXCEPT !.df = "cubic"], ret.config)

\* C13: a call during which the derivative returns NaN or an infinity
\* returns, with as many points and the same x values as the call with a
\* finite derivative, and with a non-finite y in every point after the
\* step at which the derivative was not finite.
C13_NonFinitePropagation ==
    Returned =>
        /\ FiniteTwin.status = "return"
        /\ Len(ret.data) = Len(FiniteTwin.data)
        /\ \A i \in 1..Len(ret.data) : ret.data[i].x = FiniteTwin.data[i].x
        /\ \A i \in 1..(Len(ret.data) - 1) :
              NonFiniteSlopeAt(i) =>
                  \A j \in (i + 1)..Len(ret.data) : ~isFinite(ret.data[j].y)

\* The derivative was infinite at the first step of a trajectory of three
\* points or more.
C13_Witness ==
    /\ Returned
    /\ Len(ret.data) >= 3
    /\ derivative(self.df, ret.data[1].x, ret.data[1].y) = Infinity
    /\ ~isFinite(ret.data[2].y)
    /\ ~isFinite(ret.data[3].y)

\* The derivative was NaN at the first step.
NaNSlope ==
    /\ Returned
    /\ Len(ret.data) >= 3
    /\ isNaN(derivative(self.df, ret.data[1].x, ret.data[1].y))
    /\ isNaN(ret.data[3].y)

----------------------------------------------------------------------------
(* The step formulas of Heun's method and of the Runge-Kutta method *)

\* y + (h/2)(k1 + k2), k1 = f(x, y), k2 = f(x + h, y + h*k1)
HeunFormula(f, x, y, h) ==
    LET k1 == derivative(f, x, y)
        k2 == derivative(f, Add(x, h), Add(y, Mul(h, k1)))
    IN  Add(y, Mul(Div(h, Num(2)), Add(k1, k2)))

\* y + (1/6)(k1 + 2 k2 + 2 k3 + k4), k1 = h*f(x, y),
\* k2 = h*f(x + h/2, y + k1/2), k3 = h*f(x + h/2, y + k2/2),
\* k4 = h*f(x + h, y + k3)
RK4Formula(f, x, y, h) ==
    LET k1 == Mul(h, derivative(f, x, y))
        k2 == Mul(h, derivative(f, Add(x, Div(h, Num(2))),
                                Add(y, Div(k1, Num(2)))))
        k3 == Mul(h, derivative(f, Add(x, Div(h, Num(2))),
                                Add(y, Div(k2, Num(2)))))
        k4 == Mul(h, derivative(f, Add(x, h), Add(y, k3)))
    IN  Add(y, Mul(<<1, 6>>,
                   Add(Add(Add(k1, Mul(Num(2), k2)), Mul(Num(2), k3)), k4)))

\* C14: every point after the first of a trajectory of ImprovedEuler is
\* (x + h, y + (h/2)(k1 + k2)) of the point (x, y) before it, and of
\* RungeKutta (x + h, y + (1/6)(k1 + 2 k2 + 2 k3 + k4)); the step depends on
\* nothing but x, y, h and the derivative.
C14_StepFormulas ==
    (Called /\ self.kind \in {"ImprovedEuler", "RungeKutta"}) =>
        \A i \in 1..(Len(ret.data) - 1) :
            LET p == ret.data[i]
                q == ret.data[i + 1]
            IN  /\ q.x = Add(p.x, Used.h)
                /\ self.kind = "ImprovedEuler" =>
                      q.y = HeunFormula(self.df, p.x, p.y, Used.h)
                /\ self.kind = "RungeKutta" =>
                      q.y = RK4Formula(self.df, p.x, p.y, Used.h)

\* A Runge-Kutta trajectory of three points or more for y' = y/x, with
\* finite values.
C14_Witness ==
    /\ Returned
    /\ self.kind = "RungeKutta" /\ self.df = "ratio"
    /\ Len(ret.data) >= 3
    /\ isFinite(ret.data[3].y)
    /\ ret.data[3].y # ret.data[2].y

\* The same for ImprovedEuler.
HeunTrajectory ==
    /\ Returned
    /\ self.kind = "ImprovedEuler" /\ self.df = "ratio"
    /\ Len(ret.data) >= 3
    /\ isFinite(ret.data[3].y)
    /\ ret.data[3].y # ret.data[2].y

----------------------------------------------------------------------------
(* Termination of the integration loop *)

\* C15 as stated: a call whose x0, y0, X and h are finite with h != 0
\* returns, whatever the sign of h and the order of x0 and X.
C15_Terminates ==
    (Called /\ FiniteConfig /\ Used.h # Num(0)) => Returned

\* The loop was cut off with h < 0 and x0 <= X, every x below the one
\* before: it is a loop that does not end, not one that needs more
\* iterations than the model follows.
Diverging ==
    /\ Called /\ Lt(Used.h, Num(0)) /\ Le(Used.x0, Used.X)
    /\ \A i \in 1..(Len(ret.data) - 1) : Lt(ret.data[i + 1].x, ret.data[i].x)

\* A call is cut off only when its loop does not end.
CutOffOnlyWhenDiverging == (ret.status = "hang") <=> Diverging

----------------------------------------------------------------------------
(* Calls with an override *)

\* The field k the last call has to run with: the override's when it has
\* one, the constructor's otherwise.
Effective(k) == IF k \in DOMAIN ret.config THEN ret.config[k] ELSE self[k]

\* The trajectory of the last call is the one of the effective fields: empty
\* for h = 0 or x0 > X, and otherwise from (x0, y0) in steps of h up to X.
RanWithEffective ==
    Called =>
        IF Effective("h") = Num(0) \/ ~Le(Effective("x0"), Effective("X"))
        THEN ret.data = <<>>
        ELSE /\ ret.data[1] = [x |-> Effective("x0"), y |-> Effective("y0")]
             /\ \A i \in 1..(Len(ret.data) - 1) :
                   ret.data[i + 1].x = Add(ret.data[i].x, Effective("h"))
             /\ \A i \in 1..Len(ret.data) : Le(ret.data[i].x, Effective("X"))
             /\ Returned =>
                   ~Le(Add(Last(ret.data).x, Effective("h")), Effective("X"))

\* A call without override ends as the first call without override did.
SameAsFirst ==
    (Called /\ DOMAIN ret.config = {} /\ first # NotCalled) =>
        /\ ret.status = first.status
        /\ ret.data = first.data

\* C16: a call runs with the override's fields and with the constructor's
\* for the fields the override omits; no call changes the instance's x0,
\* y0, X, h or df; and a call without override made after calls with
\* overrides returns the trajectory of the first call without override.
C16_OverrideFrame ==
    [](RanWithEffective /\ SameAsFirst) /\ [][self' = self]_allvars

\* A call without override that returned two points or more, made after a
\* call with an override that followed the first call without override.
C16_Witness ==
    /\ first # NotCalled
    /\ first.overridden
    /\ Returned
    /\ DOMAIN ret.config = {}
    /\ Len(ret.data) >= 2

\* A call whose override replaced h and whose x0, y0 and X came from the
\* constructor.
OverriddenStep ==
    /\ Returned
    /\ DOMAIN ret.config = {"h"}
    /\ ret.config.h # self.h
    /\ Len(ret.data) >= 2
    /\ ret.data[2].x = Add(self.x0, ret.config.h)

====
